---- MODULE Spec2Model ----
(***************************************************************************)
(* Model of the dual-path job orchestrator (cluster_manager.py,            *)
(* cluster_manager_thunderbolt.py) and of the benchmark harness that       *)
(* drives it (performance_comparator.py).                                  *)
(*                                                                         *)
(* A run is one invocation of an entry point.  Every remote command the    *)
(* run issues (subprocess.run of scp or ssh) is appended to `calls`        *)
(* together with the outcome the environment chose for it.                 *)
(***************************************************************************)
EXTENDS Integers, Sequences, FiniteSets, TLC

(* ---------------------------------------------------------------------- *)
(* Bounds of the model                                                     *)
(* ---------------------------------------------------------------------- *)

\* number of entry-point invocations in one behaviour
MaxRuns == 2

(* ---------------------------------------------------------------------- *)
(* Configuration set by the two constructors                               *)
(* ---------------------------------------------------------------------- *)

\* MacMiniCluster.nodes
cm_nodes == <<"n1", "n2", "n3">>

\* MacMiniCluster.node_ips
node_ips == << <<192, 168, 183, 173>>, <<192, 168, 183, 158>>, <<192, 168, 183, 122>> >>

\* MacMiniClusterThunderboltOptimized.nodes
tb_nodes == <<"n1", "n2", "n3">>

\* MacMiniClusterThunderboltOptimized.ssh_ips (control plane)
ssh_ips == << <<192, 168, 183, 173>>, <<192, 168, 183, 158>>, <<192, 168, 183, 122>> >>

\* MacMiniClusterThunderboltOptimized.thunderbolt_ips (data plane)
thunderbolt_ips == << <<169, 254, 1, 1>>, <<169, 254, 1, 2>>, <<169, 254, 1, 3>> >>

\* remote_base_dir and venv_path, the same in both classes
remote_base_dir == "/Users/0x53c/cluster_jobs"

venv_path == "/Users/0x53c/ray-cluster-venv"

(* ---------------------------------------------------------------------- *)
(* Inputs                                                                  *)
(* ---------------------------------------------------------------------- *)

\* Python's None, for an optional string argument
None == "<None>"

Scripts == {"simple_test.py", "thunderbolt_benchmark.py"}

\* --args values: absent, empty, or an argument string
ScriptArgs == {None, "", "--test-mlx"}

\* what a remote job may print
Stdouts == {"", "Node 0: done\n"}

Stderrs == {"", "mpirun: warning\n"}

\* exit codes of a remote command: success, job failure, ssh's own failure
ReturnCodes == {0, 1, 255}

(* ---------------------------------------------------------------------- *)
(* Addresses                                                               *)
(* ---------------------------------------------------------------------- *)

RECURSIVE Pow2(_)
Pow2(n) == IF n = 0 THEN 1 ELSE 2 * Pow2(n - 1)

\* how many of the leading `bits` bits of an address fall into octet k
OctetBits(bits, k) ==
    IF bits >= 8 * k THEN 8
    ELSE IF bits <= 8 * (k - 1) THEN 0
    ELSE bits - 8 * (k - 1)

\* membership of an address in a CIDR range [net, bits]: the leading bits
\* of the address are those of the network, octet by octet
InCidr(ip, cidr) ==
    \A k \in 1..4 :
        ip[k] \div Pow2(8 - OctetBits(cidr.bits, k))
            = cidr.net[k] \div Pow2(8 - OctetBits(cidr.bits, k))

Range(s) == {s[i] : i \in 1..Len(s)}

IpText(ip) ==
    ToString(ip[1]) \o "." \o ToString(ip[2]) \o "." \o ToString(ip[3]) \o "." \o ToString(ip[4])

CidrText(cidr) == IpText(cidr.net) \o "/" \o ToString(cidr.bits)

(* ---------------------------------------------------------------------- *)
(* Remote command texts                                                    *)
(*                                                                         *)
(* A command text is a record: `prelude` holds the shell lines before the  *)
(* job line, each a sequence of words (the first is the shell command);    *)
(* the other fields are the job line: the launch wrapper and its options,  *)
(* then the program and the argument string appended to it.                *)
(* ---------------------------------------------------------------------- *)

\* lines 42-45 / 232-235 / 259-262 / cluster_manager.py 42-44
ShellSetup ==
    << <<"export", "PATH=\"/opt/homebrew/bin:/usr/local/bin:$PATH\"">>,
       <<"source", venv_path \o "/bin/activate">>,
       <<"cd", remote_base_dir>> >>

\* the scp calls carry no command text
NoCommand ==
    [prelude |-> <<>>, wrapper |-> "", np |-> 0, hostflag |-> "", hosts |-> <<>>,
     mapby |-> "", if_include |-> {}, pml |-> "", btl |-> <<>>,
     help_aggregate |-> "", script |-> "", args_str |-> ""]

\* f" {script_args}" if script_args else ""
args_str(script_args) ==
    IF script_args = None \/ script_args = "" THEN "" ELSE " " \o script_args

\* {script_args or 'none'}
args_or_none(script_args) ==
    IF script_args = None \/ script_args = "" THEN "none" ELSE script_args

\* MacMiniCluster.deploy_and_run: cluster_command
cm_cluster_command(script_name) ==
    [prelude |-> ShellSetup \o
        << <<"echo", "Environment: $(hostname)">>,
           <<"echo", "Python: $(which python3)">>,
           <<"echo", "MPI: $(which mpirun)">>,
           <<"echo", "">> >>,
     wrapper |-> "/opt/homebrew/bin/mpirun", np |-> 3,
     hostflag |-> "--host", hosts |-> node_ips,
     mapby |-> ":OVERSUBSCRIBE", if_include |-> {}, pml |-> "", btl |-> <<>>,
     help_aggregate |-> "", script |-> script_name, args_str |-> ""]

\* variant: the transport list is left at its default
tb_optimized_command_any_btl(script) ==
    [prelude |-> ShellSetup, wrapper |-> "/opt/homebrew/bin/mpirun", np |-> 3,
     hostflag |-> "-H", hosts |-> ssh_ips,
     mapby |-> ":OVERSUBSCRIBE",
     if_include |-> {[net |-> <<169, 254, 1, 0>>, bits |-> 24]},
     pml |-> "", btl |-> <<>>,
     help_aggregate |-> "0", script |-> script, args_str |-> ""]

\* run_optimized_thunderbolt_job: cluster_command
tb_optimized_command(script_name) ==
    [prelude |-> ShellSetup \o
        << <<"echo", "THUNDERBOLT OPTIMIZED Environment: $(hostname)">>,
           <<"echo", "Process Management: SSH (reliable)">>,
           <<"echo", "Data Transfer: Thunderbolt Bridge (high-performance)">>,
           <<"echo", "Thunderbolt IPs: ", "169.254.1.1", ", ", "169.254.1.2", ", ", "169.254.1.3">>,
           <<"echo", "">> >>,
     wrapper |-> "/opt/homebrew/bin/mpirun", np |-> 3,
     hostflag |-> "-H",
     hosts |-> << <<192, 168, 183, 173>>, <<192, 168, 183, 158>>, <<192, 168, 183, 122>> >>,
     mapby |-> ":OVERSUBSCRIBE",
     if_include |-> {[net |-> <<169, 254, 1, 0>>, bits |-> 24]},
     pml |-> "ob1", btl |-> <<"tcp", "self">>,
     help_aggregate |-> "0", script |-> script_name, args_str |-> ""]

\* run_script_with_args: cluster_command (single node, no launch wrapper)
tb_script_command(script_name, script_args) ==
    [prelude |-> ShellSetup \o
        << <<"echo", "Running script: ", script_name>>,
           <<"echo", "Arguments: ", args_or_none(script_args)>> >>,
     wrapper |-> "", np |-> 0, hostflag |-> "", hosts |-> <<>>,
     mapby |-> "", if_include |-> {}, pml |-> "", btl |-> <<>>,
     help_aggregate |-> "", script |-> script_name, args_str |-> args_str(script_args)]

\* variant: processes placed by the data-plane addresses
tb_distributed_command_tb_hosts(script, args) ==
    [prelude |-> ShellSetup, wrapper |-> "/opt/homebrew/bin/mpirun", np |-> 3,
     hostflag |-> "-H", hosts |-> thunderbolt_ips,
     mapby |-> ":OVERSUBSCRIBE",
     if_include |-> {[net |-> <<169, 254, 1, 0>>, bits |-> 24]},
     pml |-> "ob1", btl |-> <<"tcp", "self">>,
     help_aggregate |-> "0", script |-> script, args_str |-> args_str(args)]

\* run_distributed_script_with_args: cluster_command
tb_distributed_command(script_name, script_args) ==
    [prelude |-> ShellSetup \o
        << <<"echo", "DISTRIBUTED: ", script_name>>,
           <<"echo", "Arguments: ", args_or_none(script_args)>> >>,
     wrapper |-> "/opt/homebrew/bin/mpirun", np |-> 3,
     hostflag |-> "-H", hosts |-> ssh_ips,
     mapby |-> ":OVERSUBSCRIBE",
     if_include |-> {[net |-> <<169, 254, 1, 0>>, bits |-> 24]},
     pml |-> "ob1", btl |-> <<"tcp", "self">>,
     help_aggregate |-> "0", script |-> script_name, args_str |-> args_str(script_args)]

\* debug_ssh_connection: the connectivity probe
tb_debug_command ==
    [NoCommand EXCEPT !.prelude =
        << <<"echo", "'SSH OK'">>, <<"hostname">>, <<"uptime">> >>]

(* ---------------------------------------------------------------------- *)
(* Remote Executor: subprocess.run and what the environment answers        *)
(* ---------------------------------------------------------------------- *)

\* outcomes of a copy: scp exits, with success or failure
CopyOutcomes ==
    {[kind |-> "exit", returncode |-> rc, stdout |-> "", stderr |-> ""] : rc \in {0, 1}}

\* the local call gives up: subprocess.run kills its child and raises
TimedOut == [kind |-> "timeout", returncode |-> -9, stdout |-> "", stderr |-> ""]

\* the child process never exits
NeverEnds == [kind |-> "never", returncode |-> 0, stdout |-> "", stderr |-> ""]

\* subprocess.run returns or raises TimeoutExpired when the child exits or a
\* timeout was passed; it waits for ever on a child that never exits otherwise
call_ends(outcome, timeout) == outcome.kind # "never" \/ timeout # {}

\* outcomes of a remote shell command: it exits with some code and output,
\* or does not end within the timeout the call carries (if it carries one)
ShellOutcomes(timeout) ==
    {[kind |-> "exit", returncode |-> rc, stdout |-> o, stderr |-> e] :
        rc \in ReturnCodes, o \in Stdouts, e \in Stderrs}
    \cup (IF timeout = {} THEN {} ELSE {TimedOut})

\* variant: called with check=True, a non-zero exit raises
subprocess_run_checked(outcome) ==
    IF outcome.kind = "timeout"
    THEN [raised |-> "TimeoutExpired", result |-> <<>>]
    ELSE IF outcome.returncode # 0
    THEN [raised |-> "CalledProcessError", result |-> <<>>]
    ELSE [raised |-> "none",
          result |-> <<[returncode |-> outcome.returncode,
                        stdout |-> outcome.stdout,
                        stderr |-> outcome.stderr]>>]

\* subprocess.run(..., capture_output=True, text=True[, timeout=t]) without
\* check=True: a CompletedProcess whatever the exit code, TimeoutExpired on timeout
subprocess_run(outcome) ==
    IF outcome.kind = "timeout"
    THEN [raised |-> "TimeoutExpired", result |-> <<>>]
    ELSE [raised |-> "none",
          result |-> <<[returncode |-> outcome.returncode,
                        stdout |-> outcome.stdout,
                        stderr |-> outcome.stderr]>>]

\* one entry of the log of remote commands issued
Call(prog, target, purpose, file, timeout, cmd, outcome) ==
    [prog |-> prog, target |-> target, purpose |-> purpose, file |-> file,
     timeout |-> timeout, cmd |-> cmd, outcome |-> outcome]

(* ---------------------------------------------------------------------- *)
(* Run Recorder                                                            *)
(* ---------------------------------------------------------------------- *)

\* time.ctime() of the clock value t
ctime(t) == "ctime#" \o ToString(t)

\* "-" * 50
Dashes == "--------------------------------------------------"

\* f"{job_name}_results.txt" under git_repo_dir
results_file(job) == job \o "_results.txt"

\* MacMiniCluster.deploy_and_run: the text written to results_file
cm_results_text(job, script, t, res) ==
    "Job: " \o job \o "\n" \o
    "Script: " \o script \o "\n" \o
    "Timestamp: " \o ctime(t) \o "\n" \o
    Dashes \o "\n" \o
    "STDOUT:\n" \o res.stdout \o
    "\nSTDERR:\n" \o res.stderr

\* MacMiniClusterThunderboltOptimized.deploy_and_run: the text written
tb_results_text(job, t, res) ==
    "Job: " \o job \o "\n" \o
    "Architecture: SSH process launch + Thunderbolt data\n" \o
    "Performance: Thunderbolt Bridge optimized\n" \o
    "Timestamp: " \o ctime(t) \o "\n" \o
    Dashes \o "\n" \o
    res.stdout \o
    (IF res.stderr # "" THEN "\nSTDERR:\n" \o res.stderr ELSE "")

\* variant: the file is opened for appending
write_file_appends(fs, name, text) ==
    (name :> (IF name \in DOMAIN fs THEN fs[name] \o text ELSE text)) @@ fs

\* open(results_file, 'w') and the writes: the whole file is replaced
write_file(fs, name, text) == (name :> text) @@ fs

(* ---------------------------------------------------------------------- *)
(* State                                                                   *)
(* ---------------------------------------------------------------------- *)

VARIABLES
    run,          \* entry-point invocations started so far
    now,          \* int(time.time()) at the start of the current run
    pc,           \* position of the current run: idle, deploy, launch, debug, done
    entry,        \* entry point of the current run
    script_name,  \* argument of the run
    script_exists,\* whether git_repo_dir / script_name exists during the run
    script_args,  \* --args value (main of cluster_manager_thunderbolt.py)
    distributed,  \* --distributed flag (main of cluster_manager_thunderbolt.py)
    job_name,     \* job name, given or derived from the clock
    copyIdx,      \* index in the node list of the next node of the loop
    calls,        \* remote commands issued in the current run, in order
    result,       \* <<CompletedProcess>> of the launch, <<>> before it
    raised,       \* exception that left the entry point uncaught, or "none"
    report,       \* what the run reports: pending, success, failed
    exitCode,     \* {exit status} of the manager process once it ended
    files,        \* the result files on disk: name -> text
    overwritten,  \* history: names of the result files written over so far
    hpc,          \* run_benchmark: none (run started by the operator), waiting, returned
    benchCause,   \* how run_benchmark's subprocess.run ended
    benchRet,     \* run_benchmark's return value
    network_type, \* parse_benchmark_output: its argument network_type
    output,       \* parse_benchmark_output: its argument output, a text
    line_no,      \* parse_benchmark_output: lines of the loop gone through
    metrics,      \* parse_benchmark_output: the dictionary metrics
    parse_pc,     \* parse_benchmark_output: idle, loop, returned, raised
    ssh_results,  \* PerformanceComparator.ssh_results
    thunderbolt_results, \* PerformanceComparator.thunderbolt_results
    improvements, \* what calculate_improvements returned: <<>> is None
    verdict,      \* the band print_comparison_report printed
    compare_pc,   \* idle, ssh_runs, thunderbolt_runs, trials_done, calculated, reported,
                  \* saved, raised
    num_runs,     \* run_comparison: its argument num_runs
    trials,       \* run_comparison: the calls of run_benchmark so far, in order
    saved         \* performance_comparison.json: <<>> before it is written

vars == <<run, now, pc, entry, script_name, script_exists, script_args, distributed, job_name,
          copyIdx, calls, result, raised, report, exitCode, files, overwritten,
          hpc, benchCause, benchRet,
          network_type, output, line_no, metrics, parse_pc,
          ssh_results, thunderbolt_results, improvements, verdict, compare_pc,
          num_runs, trials, saved>>

\* variables of the harness
hvars == <<hpc, benchCause, benchRet>>

\* variables of parse_benchmark_output
pvars == <<network_type, output, line_no, metrics, parse_pc>>

\* variables of the comparison
cvars == <<ssh_results, thunderbolt_results, improvements, verdict, compare_pc>>

\* variables of run_comparison
rvars == <<num_runs, trials, saved>>

JobNames == {None, "jobA"}

\* no manager process has run, run_benchmark has not been called
ManagerInit ==
    /\ run = 0
    /\ now = 0
    /\ pc = "idle"
    /\ entry = "none"
    /\ script_name = ""
    /\ script_exists = FALSE
    /\ script_args = None
    /\ distributed = FALSE
    /\ job_name = ""
    /\ copyIdx = 1
    /\ calls = <<>>
    /\ result = <<>>
    /\ raised = "none"
    /\ report = "pending"
    /\ exitCode = {}
    /\ files = <<>>
    /\ overwritten = {}
    /\ hpc = "none"
    /\ benchCause = "none"
    /\ benchRet = "pending"

\* parse_benchmark_output has not been called
ParseIdle ==
    /\ network_type = ""
    /\ output = <<>>
    /\ line_no = 0
    /\ metrics = <<>>
    /\ parse_pc = "idle"

\* run_comparison has not been called
RunIdle ==
    /\ num_runs = 0
    /\ trials = <<>>
    /\ saved = <<>>

\* no comparison is under way
CompareIdle ==
    /\ ssh_results = <<>>
    /\ thunderbolt_results = <<>>
    /\ improvements = <<>>
    /\ verdict = ""
    /\ compare_pc = "idle"

Init ==
    /\ ManagerInit
    /\ ParseIdle
    /\ CompareIdle
    /\ RunIdle

\* a new run may start once the previous one and its caller are through
CanStart ==
    /\ run < MaxRuns
    /\ pc \in {"idle", "done"}
    /\ hpc # "waiting"

\* a fresh process: the clock has not gone back, nothing is left of the last run
Fresh(e, script, exists, args, dist) ==
    /\ run' = run + 1
    /\ now' \in {now, now + 1}
    /\ entry' = e
    /\ script_name' = script
    /\ script_exists' = exists
    /\ script_args' = args
    /\ distributed' = dist
    /\ copyIdx' = 1
    /\ calls' = <<>>
    /\ result' = <<>>
    /\ raised' = "none"
    /\ UNCHANGED <<files, overwritten>>

(* ---------------------------------------------------------------------- *)
(* cluster_manager.py                                                      *)
(* ---------------------------------------------------------------------- *)

\* variant: no test that the script exists
cm_check_script_skipped(exists) == "deploy"

\* deploy_and_run, lines 19-22: the script must exist locally
cm_check_script(exists) == IF exists THEN "deploy" ELSE "return_false"

\* deploy_and_run, lines 27-36: what follows the copy to node number idx
cm_after_copy(returncode, idx) ==
    IF returncode # 0 THEN "return_false"
    ELSE IF idx < Len(cm_nodes) THEN "next_node"
    ELSE "launch"

\* main and deploy_and_run up to the first copy
cm_begin(script, job, exists) ==
    /\ Fresh("cm_main", script, exists, None, FALSE)
    /\ job_name' = IF job = None THEN "job_" \o ToString(now') ELSE job
    /\ IF cm_check_script(exists) = "return_false"
       THEN pc' = "done" /\ report' = "failed" /\ exitCode' = {0}
       ELSE pc' = "deploy" /\ report' = "pending" /\ exitCode' = {}

\* python3 cluster_manager.py <script> [job_name], run by the operator
CM_Start ==
    /\ CanStart
    /\ \E script \in Scripts, job \in JobNames, exists \in BOOLEAN :
           cm_begin(script, job, exists)
    /\ hpc' = "none" /\ benchCause' = "none" /\ benchRet' = "pending"
    /\ UNCHANGED <<pvars, cvars, rvars>>

\* deploy_and_run: one turn of the deploy loop
CM_Copy ==
    /\ pc = "deploy" /\ entry = "cm_main"
    /\ \E o \in CopyOutcomes :
        LET step == cm_after_copy(o.returncode, copyIdx)
        IN  /\ calls' = Append(calls,
                    Call("scp", cm_nodes[copyIdx], "copy", script_name, {}, NoCommand, o))
            /\ IF step = "return_false"
               THEN pc' = "done" /\ report' = "failed" /\ exitCode' = {0}
                    /\ UNCHANGED copyIdx
               ELSE IF step = "next_node"
               THEN pc' = "deploy" /\ copyIdx' = copyIdx + 1
                    /\ UNCHANGED <<report, exitCode>>
               ELSE pc' = "launch" /\ UNCHANGED <<copyIdx, report, exitCode>>
    /\ UNCHANGED <<run, now, entry, script_name, script_exists, script_args, distributed, job_name,
                   result, raised, files, overwritten, hvars, pvars, cvars, rvars>>

\* deploy_and_run, lines 29-32: the node never answers the copy, scp does not
\* exit, and the call carries no timeout
CM_CopyHangs ==
    /\ pc = "deploy" /\ entry = "cm_main"
    /\ ~call_ends(NeverEnds, {})
    /\ calls' = Append(calls,
            Call("scp", cm_nodes[copyIdx], "copy", script_name, {}, NoCommand, NeverEnds))
    /\ pc' = "blocked"
    /\ UNCHANGED <<run, now, entry, script_name, script_exists, script_args, distributed, job_name,
                   copyIdx, result, raised, report, exitCode, files, overwritten,
                   hvars, pvars, cvars, rvars>>

\* deploy_and_run from the launch to its return, and main's report
CM_Launch ==
    /\ pc = "launch" /\ entry = "cm_main"
    /\ \E o \in ShellOutcomes({300}) :
        LET got == subprocess_run(o)
        IN  /\ calls' = Append(calls,
                    Call("ssh", "n1", "launch", "", {300}, cm_cluster_command(script_name), o))
            /\ raised' = got.raised
            /\ result' = got.result
            /\ IF got.raised # "none"
               THEN /\ report' = "pending"
                    /\ exitCode' = {1}
                    /\ UNCHANGED <<files, overwritten>>
               ELSE /\ overwritten' = overwritten \cup ({results_file(job_name)} \cap DOMAIN files)
                    /\ files' = write_file(files, results_file(job_name),
                                    cm_results_text(job_name, script_name, now, got.result[1]))
                    /\ report' = IF got.result[1].returncode = 0 THEN "success" ELSE "failed"
                    /\ exitCode' = {0}
    /\ pc' = "done"
    /\ UNCHANGED <<run, now, entry, script_name, script_exists, script_args, distributed, job_name,
                   copyIdx, hvars, pvars, cvars, rvars>>

(* ---------------------------------------------------------------------- *)
(* cluster_manager_thunderbolt.py                                          *)
(* ---------------------------------------------------------------------- *)

\* deploy_script, lines 19-22: the script must exist locally
tb_check_script(exists) == IF exists THEN "deploy" ELSE "return_false"

\* variant: the exit code is looked at only once the loop has run through
tb_after_copy_checks_late(returncode, idx) ==
    IF idx < Len(tb_nodes) THEN "next_node"
    ELSE IF returncode # 0 THEN "return_false"
    ELSE "return_true"

\* deploy_script, lines 25-33: what follows the copy to node number idx
tb_after_copy(returncode, idx) ==
    IF returncode # 0 THEN "return_false"
    ELSE IF idx < Len(tb_nodes) THEN "next_node"
    ELSE "return_true"

\* variant: the caller does not test what deploy_script returned
tb_after_deploy_unchecked(deployed) == "launch"

\* deploy_and_run, lines 75-78, and main, lines 334-342: the launch waits
\* for deploy_script's verdict
tb_after_deploy(deployed) == IF deployed THEN "launch" ELSE "give_up"

\* the caller of deploy_script gave up: deploy_and_run returns False, main
\* prints the failure and returns
tb_give_up(e) ==
    /\ pc' = "done"
    /\ report' = "failed"
    /\ exitCode' = IF e = "tb_main" THEN {0} ELSE {}

\* deploy_script up to its first copy; when it returns False at once its
\* caller tests that value
tb_first_step(e, exists) ==
    IF tb_check_script(exists) = "deploy"
    THEN pc' = "deploy" /\ report' = "pending" /\ exitCode' = {}
    ELSE IF tb_after_deploy(FALSE) = "give_up"
    THEN tb_give_up(e)
    ELSE pc' = "launch" /\ report' = "pending" /\ exitCode' = {}

\* deploy_and_run(script, job) up to the first copy
tb_begin_deploy_and_run(script, job, exists) ==
    /\ Fresh("tb_deploy_and_run", script, exists, None, FALSE)
    /\ job_name' = IF job = None THEN "thunderbolt_optimized_" \o ToString(now') ELSE job
    /\ tb_first_step("tb_deploy_and_run", exists)

\* main with a script name, from the parse of argv up to the first copy
tb_begin_main(script, args, dist, exists) ==
    /\ Fresh("tb_main", script, exists, args, dist)
    /\ job_name' = ""
    /\ tb_first_step("tb_main", exists)

\* main with "debug": debug_ssh_connection up to the first probe
tb_begin_debug ==
    /\ Fresh("tb_debug", "", FALSE, None, FALSE)
    /\ job_name' = ""
    /\ pc' = "debug" /\ report' = "pending" /\ exitCode' = {}

\* an invocation by the operator: deploy_and_run, or the command line
TB_Start ==
    /\ CanStart
    /\ \/ \E script \in Scripts, job \in JobNames, exists \in BOOLEAN :
              tb_begin_deploy_and_run(script, job, exists)
       \/ \E script \in Scripts, args \in ScriptArgs, dist \in BOOLEAN, exists \in BOOLEAN :
              tb_begin_main(script, args, dist, exists)
       \/ tb_begin_debug
    /\ hpc' = "none" /\ benchCause' = "none" /\ benchRet' = "pending"
    /\ UNCHANGED <<pvars, cvars, rvars>>

\* deploy_script: one turn of the deploy loop, and its caller's test of the
\* value deploy_script returns
TB_Copy ==
    /\ pc = "deploy" /\ entry \in {"tb_deploy_and_run", "tb_main"}
    /\ \E o \in CopyOutcomes :
        LET step == tb_after_copy(o.returncode, copyIdx)
        IN  /\ calls' = Append(calls,
                    Call("scp", tb_nodes[copyIdx], "copy", script_name, {}, NoCommand, o))
            /\ IF step = "next_node"
               THEN pc' = "deploy" /\ copyIdx' = copyIdx + 1
                    /\ UNCHANGED <<report, exitCode>>
               ELSE /\ UNCHANGED copyIdx
                    /\ IF tb_after_deploy(step = "return_true") = "give_up"
                       THEN tb_give_up(entry)
                       ELSE pc' = "launch" /\ UNCHANGED <<report, exitCode>>
    /\ UNCHANGED <<run, now, entry, script_name, script_exists, script_args, distributed, job_name,
                   result, raised, files, overwritten, hvars, pvars, cvars, rvars>>

\* deploy_script, lines 26-28: the node never answers the copy, scp does not
\* exit, and the call carries no timeout
TB_CopyHangs ==
    /\ pc = "deploy" /\ entry \in {"tb_deploy_and_run", "tb_main"}
    /\ ~call_ends(NeverEnds, {})
    /\ calls' = Append(calls,
            Call("scp", tb_nodes[copyIdx], "copy", script_name, {}, NoCommand, NeverEnds))
    /\ pc' = "blocked"
    /\ UNCHANGED <<run, now, entry, script_name, script_exists, script_args, distributed, job_name,
                   copyIdx, result, raised, report, exitCode, files, overwritten,
                   hvars, pvars, cvars, rvars>>

\* deploy_and_run from run_optimized_thunderbolt_job to its return
TB_Launch ==
    /\ pc = "launch" /\ entry = "tb_deploy_and_run"
    /\ \E o \in ShellOutcomes({600}) :
        LET got == subprocess_run(o)
        IN  /\ calls' = Append(calls,
                    Call("ssh", "n1", "launch", "", {600}, tb_optimized_command(script_name), o))
            /\ raised' = got.raised
            /\ result' = got.result
            /\ IF got.raised # "none"
               THEN /\ report' = "pending"
                    /\ UNCHANGED <<files, overwritten>>
               ELSE /\ overwritten' = overwritten \cup ({results_file(job_name)} \cap DOMAIN files)
                    /\ files' = write_file(files, results_file(job_name),
                                    tb_results_text(job_name, now, got.result[1]))
                    /\ report' = IF got.result[1].returncode = 0 THEN "success" ELSE "failed"
    /\ pc' = "done"
    /\ UNCHANGED <<run, now, entry, script_name, script_exists, script_args, distributed, job_name,
                   copyIdx, exitCode, hvars, pvars, cvars, rvars>>

\* main, lines 338-354: run the script, print what it gave
TB_MainLaunch ==
    /\ pc = "launch" /\ entry = "tb_main"
    /\ \E o \in ShellOutcomes({300}) :
        LET got == subprocess_run(o)
            cmd == IF distributed
                   THEN tb_distributed_command(script_name, script_args)
                   ELSE tb_script_command(script_name, script_args)
        IN  /\ calls' = Append(calls, Call("ssh", "n1", "launch", "", {300}, cmd, o))
            /\ raised' = got.raised
            /\ result' = got.result
            /\ IF got.raised # "none"
               THEN report' = "pending" /\ exitCode' = {1}
               ELSE /\ report' = IF got.result[1].returncode = 0 THEN "success" ELSE "failed"
                    /\ exitCode' = {0}
    /\ job_name' = (IF distributed THEN "distributed_" ELSE "script_") \o ToString(now)
    /\ pc' = "done"
    /\ UNCHANGED <<run, now, entry, script_name, script_exists, script_args, distributed,
                   copyIdx, files, overwritten, hvars, pvars, cvars, rvars>>

\* debug_ssh_connection: one turn of the probe loop
TB_DebugCheck ==
    /\ pc = "debug" /\ entry = "tb_debug"
    /\ \E o \in {x \in ShellOutcomes({10}) : x.stdout = "" /\ x.stderr = ""} :
        LET got == subprocess_run(o)
        IN  /\ calls' = Append(calls,
                    Call("ssh", tb_nodes[copyIdx], "check", "", {10}, tb_debug_command, o))
            /\ raised' = got.raised
            /\ IF got.raised # "none"
               THEN pc' = "done" /\ exitCode' = {1} /\ UNCHANGED copyIdx
               ELSE IF copyIdx < Len(tb_nodes)
               THEN pc' = "debug" /\ copyIdx' = copyIdx + 1 /\ UNCHANGED exitCode
               ELSE pc' = "done" /\ exitCode' = {0} /\ UNCHANGED copyIdx
    /\ UNCHANGED <<run, now, entry, script_name, script_exists, script_args, distributed, job_name,
                   result, report, files, overwritten, hvars, pvars, cvars, rvars>>

(* ---------------------------------------------------------------------- *)
(* performance_comparator.py: run_benchmark                                *)
(* ---------------------------------------------------------------------- *)

\* variant: only the exit status is looked at
run_benchmark_ignores_exceptions(cause, returncode) ==
    IF returncode # 0 THEN None ELSE "metrics"

\* run_benchmark, lines 17-42: the value returned for the way the manager
\* process ended; a dictionary of metrics is written "metrics"
run_benchmark_return(cause, returncode) ==
    IF cause \in {"timeout", "error"} THEN None
    ELSE IF returncode # 0 THEN None
    ELSE "metrics"

\* run_comparison, lines 236-237 and 248-249: `if result:` appends the value
\* run_benchmark returned to the batch; None is not appended, a dictionary
\* of metrics (it always has its six keys) is
appends_result(ret) == ret # None

\* run_benchmark starts python3 <cluster_manager> <benchmark_script>
BenchStart ==
    /\ CanStart
    /\ \E script \in Scripts, exists \in BOOLEAN :
        \/ cm_begin(script, None, exists)
        \/ tb_begin_main(script, None, FALSE, exists)
    /\ hpc' = "waiting" /\ benchCause' = "none" /\ benchRet' = "pending"
    /\ UNCHANGED <<pvars, cvars, rvars>>

\* python3 cannot open the manager's file: it exits with status 2 at once
BenchNoManager ==
    /\ CanStart
    /\ \E script \in Scripts : Fresh("no_manager", script, FALSE, None, FALSE)
    /\ job_name' = ""
    /\ pc' = "done" /\ report' = "pending" /\ exitCode' = {2}
    /\ hpc' = "waiting" /\ benchCause' = "none" /\ benchRet' = "pending"
    /\ UNCHANGED <<pvars, cvars, rvars>>

\* the manager process ended: returncode test, then the metrics
BenchReturn ==
    /\ hpc = "waiting" /\ pc = "done"
    /\ \E code \in exitCode :
        /\ benchCause' = "exit"
        /\ benchRet' = run_benchmark_return("exit", code)
    /\ hpc' = "returned"
    /\ UNCHANGED <<run, now, pc, entry, script_name, script_exists, script_args, distributed, job_name,
                   copyIdx, calls, result, raised, report, exitCode, files, overwritten, pvars, cvars, rvars>>

\* 300 s passed before the manager process ended: it is killed
BenchTimeout ==
    /\ hpc = "waiting" /\ pc \in {"deploy", "launch", "blocked"}
    /\ pc' = "done"
    /\ exitCode' = {TimedOut.returncode}
    /\ benchCause' = "timeout"
    /\ benchRet' = run_benchmark_return("timeout", TimedOut.returncode)
    /\ hpc' = "returned"
    /\ UNCHANGED <<run, now, entry, script_name, script_exists, script_args, distributed, job_name,
                   copyIdx, calls, result, raised, report, files, overwritten, pvars, cvars, rvars>>

Next ==
    \/ CM_Start
    \/ CM_Copy
    \/ CM_CopyHangs
    \/ CM_Launch
    \/ TB_Start
    \/ TB_Copy
    \/ TB_CopyHangs
    \/ TB_Launch
    \/ TB_MainLaunch
    \/ TB_DebugCheck
    \/ BenchStart
    \/ BenchNoManager
    \/ BenchReturn
    \/ BenchTimeout

Spec == Init /\ [][Next]_vars

(* ---------------------------------------------------------------------- *)
(* performance_comparator.py: parse_benchmark_output                       *)
(* ---------------------------------------------------------------------- *)

\* A text is a sequence of characters, each a string of length one. A float
\* is an exact fraction [n, d], d > 0, in lowest terms. A field that holds a
\* float or None is a sequence of at most one float, <<>> being None.

MaxLines == 3

Digits == {"0", "1", "2", "3", "4", "5", "6", "7", "8", "9"}

DigitSeq == <<"0", "1", "2", "3", "4", "5", "6", "7", "8", "9">>

\* \s of the re module
Spaces == {" ", "\t", "\r"}

DigitVal(c) == (CHOOSE k \in 1..10 : DigitSeq[k] = c) - 1

RECURSIVE int_of(_)
int_of(s) ==
    IF s = <<>> THEN 0
    ELSE 10 * int_of(SubSeq(s, 1, Len(s) - 1)) + DigitVal(s[Len(s)])

RECURSIVE Pow10(_)
Pow10(n) == IF n = 0 THEN 1 ELSE 10 * Pow10(n - 1)

RECURSIVE Gcd(_, _)
Gcd(a, b) == IF b = 0 THEN a ELSE Gcd(b, a % b)

Abs(a) == IF a < 0 THEN -a ELSE a

\* the fraction n/d, d # 0, in lowest terms with a positive denominator
Rat(n, d) ==
    LET g == Gcd(Abs(n), Abs(d))
        sgn == IF d < 0 THEN -1 ELSE 1
    IN  [n |-> sgn * (n \div g), d |-> sgn * (d \div g)]

IsDigits(s) == s # <<>> /\ \A i \in 1..Len(s) : s[i] \in Digits

\* float(group): <<the value>> for the literals "ddd" and "ddd.ddd"; any
\* other text is taken to raise ValueError, written <<>>
float(s) ==
    IF IsDigits(s) THEN <<Rat(int_of(s), 1)>>
    ELSE IF \E i \in 2..(Len(s) - 1) :
                /\ s[i] = "."
                /\ IsDigits(SubSeq(s, 1, i - 1))
                /\ IsDigits(SubSeq(s, i + 1, Len(s)))
    THEN LET i == CHOOSE k \in 2..(Len(s) - 1) : s[k] = "."
             whole == SubSeq(s, 1, i - 1)
             frac == SubSeq(s, i + 1, Len(s))
         IN  <<Rat(int_of(whole) * Pow10(Len(frac)) + int_of(frac), Pow10(Len(frac)))>>
    ELSE <<>>

\* output.split('\n'), line 55
RECURSIVE split(_)
split(text) ==
    IF \A i \in 1..Len(text) : text[i] # "\n" THEN <<text>>
    ELSE LET k == CHOOSE i \in 1..Len(text) :
                      text[i] = "\n" /\ \A j \in 1..(i - 1) : text[j] # "\n"
         IN  <<SubSeq(text, 1, k - 1)>> \o split(SubSeq(text, k + 1, Len(text)))

\* the first index from i on whose character is not in S
RECURSIVE RunEnd(_, _, _)
RunEnd(l, i, S) == IF i <= Len(l) /\ l[i] \in S THEN RunEnd(l, i + 1, S) ELSE i

\* the word w stands in l at index i
HasAt(l, i, w) == i + Len(w) - 1 <= Len(l) /\ SubSeq(l, i, i + Len(w) - 1) = w

Min(S) == CHOOSE x \in S : \A y \in S : x <= y

\* \d+\.\d+ matched at index j: the index after the match, 0 without one.
\* Both \d+ take their whole run of digits: what follows each in the three
\* patterns is no digit, so no shorter run can match.
DecimalEnd(l, j) ==
    LET a == RunEnd(l, j, Digits)
    IN  IF a > j /\ a <= Len(l) /\ l[a] = "." /\ RunEnd(l, a + 1, Digits) > a + 1
        THEN RunEnd(l, a + 1, Digits)
        ELSE 0

word_MBs == <<"M", "B", "/", "s">>

word_sp_MBs == <<" ", "M", "B", "/", "s">>

word_sp_ops == <<" ", "o", "p", "s", "/", "s">>

word_SSH == <<"S", "S", "H">>

word_Thunderbolt == <<"T", "h", "u", "n", "d", "e", "r", "b", "o", "l", "t">>

word_sp_Final == <<" ", "F", "i", "n", "a", "l">>

word_sp_message_storm ==
    <<" ", "m", "e", "s", "s", "a", "g", "e", " ", "s", "t", "o", "r", "m">>

\* (SSH|Thunderbolt)
NetworkWords == {word_SSH, word_Thunderbolt}

\* (\d+\.\d+)\s*MB/s matched at index j
bandwidth_tail(l, j) ==
    LET e == DecimalEnd(l, j)
    IN  e > 0 /\ HasAt(l, RunEnd(l, e, Spaces), word_MBs)

\* (\d+)x\1 matched at index i: the index after the match, 0 without one
square_end(l, i) ==
    LET k == RunEnd(l, i, Digits)
    IN  IF k > i /\ k <= Len(l) /\ l[k] = "x" /\ HasAt(l, k + 1, SubSeq(l, i, k - 1))
        THEN 2 * k - i + 1
        ELSE 0

\* re.search(r'(\d+)x\1.*?(\d+\.\d+)\s*MB/s', line), line 60: <<>> without a
\* match, else <<the groups>> of the match at the leftmost start, .*? taking
\* the fewest characters
bandwidth_match(line) ==
    LET tails(i) == {j \in square_end(line, i)..Len(line) : bandwidth_tail(line, j)}
        starts == {i \in 1..Len(line) : square_end(line, i) > 0 /\ tails(i) # {}}
    IN  IF starts = {} THEN <<>>
        ELSE LET i == Min(starts)
                 j == Min(tails(i))
             IN  <<[g1 |-> SubSeq(line, i, RunEnd(line, i, Digits) - 1),
                    g2 |-> SubSeq(line, j, DecimalEnd(line, j) - 1)]>>

\* (\d+\.\d+) followed by the word w, matched at index j
decimal_then(l, j, w) == DecimalEnd(l, j) > 0 /\ HasAt(l, DecimalEnd(l, j), w)

\* re.search(r'(SSH|Thunderbolt) Final.*?(\d+\.\d+) ops/s.*?(\d+\.\d+) MB/s', line),
\* line 67
sustained_match(line) ==
    LET after(i, w) == i + Len(w) + Len(word_sp_Final)
        seconds(j1) == {j2 \in (DecimalEnd(line, j1) + Len(word_sp_ops))..Len(line) :
                            decimal_then(line, j2, word_sp_MBs)}
        firsts(i, w) == {j1 \in after(i, w)..Len(line) :
                            decimal_then(line, j1, word_sp_ops) /\ seconds(j1) # {}}
        starts == {x \in (1..Len(line)) \X NetworkWords :
                      HasAt(line, x[1], x[2] \o word_sp_Final) /\ firsts(x[1], x[2]) # {}}
    IN  IF starts = {} THEN <<>>
        ELSE LET x == CHOOSE y \in starts : \A z \in starts : y[1] <= z[1]
                 j1 == Min(firsts(x[1], x[2]))
                 j2 == Min(seconds(j1))
             IN  <<[g1 |-> x[2],
                    g2 |-> SubSeq(line, j1, DecimalEnd(line, j1) - 1),
                    g3 |-> SubSeq(line, j2, DecimalEnd(line, j2) - 1)]>>

\* (\d+) followed by " ops/s", matched at index j
count_then_ops(l, j) ==
    RunEnd(l, j, Digits) > j /\ HasAt(l, RunEnd(l, j, Digits), word_sp_ops)

\* re.search(r'(SSH|Thunderbolt) message storm.*?(\d+) ops/s', line), line 74
storm_match(line) ==
    LET after(i, w) == i + Len(w) + Len(word_sp_message_storm)
        counts(i, w) == {j \in after(i, w)..Len(line) : count_then_ops(line, j)}
        starts == {x \in (1..Len(line)) \X NetworkWords :
                      HasAt(line, x[1], x[2] \o word_sp_message_storm)
                      /\ counts(x[1], x[2]) # {}}
    IN  IF starts = {} THEN <<>>
        ELSE LET x == CHOOSE y \in starts : \A z \in starts : y[1] <= z[1]
                 j == Min(counts(x[1], x[2]))
             IN  <<[g1 |-> x[2], g2 |-> SubSeq(line, j, RunEnd(line, j, Digits) - 1)]>>

\* lines 46-53: the dictionary before the loop
new_metrics(network, t) ==
    [network_type |-> network,
     timestamp |-> t,
     large_transfer_bandwidth |-> <<>>,
     sustained_ops_rate |-> <<>>,
     sustained_throughput |-> <<>>,
     message_storm_rate |-> <<>>]

\* variant: the sample is assigned, not appended
parse_bandwidth_keeps_last(m, line) ==
    LET bw == bandwidth_match(line)
    IN  IF bw = <<>> THEN m
        ELSE [m EXCEPT !.large_transfer_bandwidth = float(bw[1].g2)]

\* lines 60-63: the first pattern's turn on a line
parse_bandwidth(m, line) ==
    LET bw == bandwidth_match(line)
    IN  IF bw = <<>> THEN m
        ELSE [m EXCEPT !.large_transfer_bandwidth = @ \o float(bw[1].g2)]

\* variant: the throughput is set by the first matching line only
parse_sustained_first_throughput(m, line) ==
    LET su == sustained_match(line)
    IN  IF su = <<>> THEN m
        ELSE [m EXCEPT !.sustained_ops_rate = float(su[1].g2),
                       !.sustained_throughput =
                           IF @ = <<>> THEN float(su[1].g3) ELSE @]

\* variant: a line without a match clears the two fields
parse_sustained_clears(m, line) ==
    LET su == sustained_match(line)
    IN  IF su = <<>>
        THEN [m EXCEPT !.sustained_ops_rate = <<>>, !.sustained_throughput = <<>>]
        ELSE [m EXCEPT !.sustained_ops_rate = float(su[1].g2),
                       !.sustained_throughput = float(su[1].g3)]

\* lines 67-70: the second pattern's turn on a line
parse_sustained(m, line) ==
    LET su == sustained_match(line)
    IN  IF su = <<>> THEN m
        ELSE [m EXCEPT !.sustained_ops_rate = float(su[1].g2),
                       !.sustained_throughput = float(su[1].g3)]

\* lines 74-76: the third pattern's turn on a line
parse_storm(m, line) ==
    LET st == storm_match(line)
    IN  IF st = <<>> THEN m
        ELSE [m EXCEPT !.message_storm_rate = float(st[1].g2)]

\* lines 56-76: the body of the loop
parse_line(m, line) == parse_storm(parse_sustained(parse_bandwidth(m, line), line), line)

\* some float() of the body of the loop raises on this line
parse_raises(line) ==
    \/ bandwidth_match(line) # <<>> /\ float(bandwidth_match(line)[1].g2) = <<>>
    \/ sustained_match(line) # <<>>
         /\ <<>> \in {float(sustained_match(line)[1].g2), float(sustained_match(line)[1].g3)}
    \/ storm_match(line) # <<>> /\ float(storm_match(line)[1].g2) = <<>>

\* "Node 0: 2x2 (0.1MB) - 0.250s - 48.5 MB/s" (thunderbolt_benchmark.py line 48)
line_transfer_0 ==
    <<"N", "o", "d", "e", " ", "0", ":", " ", "2", "x", "2", " ", "(", "0", ".", "1", "M", "B",
      ")", " ", "-", " ", "0", ".", "2", "5", "0", "s", " ", "-", " ", "4", "8", ".", "5", " ",
      "M", "B", "/", "s">>

\* "Node 1: 3x3 (0.1MB) - 0.125s - 25.0 MB/s" (thunderbolt_benchmark.py line 48)
line_transfer_1 ==
    <<"N", "o", "d", "e", " ", "1", ":", " ", "3", "x", "3", " ", "(", "0", ".", "1", "M", "B",
      ")", " ", "-", " ", "0", ".", "1", "2", "5", "s", " ", "-", " ", "2", "5", ".", "0", " ",
      "M", "B", "/", "s">>

\* "Node 0: Testing 2x2 matrix..." (thunderbolt_benchmark.py line 35)
line_testing ==
    <<"N", "o", "d", "e", " ", "0", ":", " ", "T", "e", "s", "t", "i", "n", "g", " ", "2", "x",
      "2", " ", "m", "a", "t", "r", "i", "x", ".", ".", ".">>

\* "Node 0: 5 ops - 1.5 ops/s - 30.0 MB/s" (thunderbolt_benchmark.py line 76)
line_progress ==
    <<"N", "o", "d", "e", " ", "0", ":", " ", "5", " ", "o", "p", "s", " ", "-", " ", "1", ".",
      "5", " ", "o", "p", "s", "/", "s", " ", "-", " ", "3", "0", ".", "0", " ", "M", "B", "/",
      "s">>

\* "Node 0: Thunderbolt Final - 1.5 ops/s - 30.0 MB/s" (thunderbolt_benchmark.py line 85)
line_final_0 ==
    <<"N", "o", "d", "e", " ", "0", ":", " ", "T", "h", "u", "n", "d", "e", "r", "b", "o", "l",
      "t", " ", "F", "i", "n", "a", "l", " ", "-", " ", "1", ".", "5", " ", "o", "p", "s", "/",
      "s", " ", "-", " ", "3", "0", ".", "0", " ", "M", "B", "/", "s">>

\* "Node 1: SSH Final - 2.0 ops/s - 40.5 MB/s" (the same line of the SSH benchmark)
line_final_1 ==
    <<"N", "o", "d", "e", " ", "1", ":", " ", "S", "S", "H", " ", "F", "i", "n", "a", "l", " ",
      "-", " ", "2", ".", "0", " ", "o", "p", "s", "/", "s", " ", "-", " ", "4", "0", ".", "5",
      " ", "M", "B", "/", "s">>

\* "Node 0: Thunderbolt message storm - 120 ops/s" (thunderbolt_benchmark.py line 105)
line_storm_0 ==
    <<"N", "o", "d", "e", " ", "0", ":", " ", "T", "h", "u", "n", "d", "e", "r", "b", "o", "l",
      "t", " ", "m", "e", "s", "s", "a", "g", "e", " ", "s", "t", "o", "r", "m", " ", "-", " ",
      "1", "2", "0", " ", "o", "p", "s", "/", "s">>

\* "Node 1: SSH message storm - 99 ops/s" (the same line of the SSH benchmark)
line_storm_1 ==
    <<"N", "o", "d", "e", " ", "1", ":", " ", "S", "S", "H", " ", "m", "e", "s", "s", "a", "g",
      "e", " ", "s", "t", "o", "r", "m", " ", "-", " ", "9", "9", " ", "o", "p", "s", "/", "s">>

\* "12x123.5 MB/s" (a line no benchmark prints, that the first pattern matches all the same)
line_odd ==
    <<"1", "2", "x", "1", "2", "3", ".", "5", " ", "M", "B", "/", "s">>

\* an empty line
line_empty == <<>>

\* the lines a benchmark is taken to print
Lines ==
    {line_transfer_0, line_transfer_1, line_testing, line_progress, line_final_0,
     line_final_1, line_storm_0, line_storm_1, line_odd, line_empty}

\* what the process wrote: each line printed ends with a newline
RECURSIVE printed(_)
printed(ls) == IF ls = <<>> THEN <<>> ELSE Head(ls) \o <<"\n">> \o printed(Tail(ls))

Outputs == {printed(ls) : ls \in UNION {[1..n -> Lines] : n \in 0..MaxLines}}

NetworkTypes == {"SSH", "Thunderbolt"}

\* parse_benchmark_output(output, network_type) is called: lines 46-55
ParseInit ==
    /\ ManagerInit
    /\ network_type \in NetworkTypes
    /\ output \in Outputs
    /\ line_no = 0
    /\ metrics = new_metrics(network_type, now)
    /\ parse_pc = "loop"
    /\ CompareIdle
    /\ RunIdle

mvars == <<run, now, pc, entry, script_name, script_exists, script_args, distributed, job_name,
           copyIdx, calls, result, raised, report, exitCode, files, overwritten, hvars>>

\* one turn of the loop over the lines
ParseLine ==
    /\ parse_pc = "loop"
    /\ line_no < Len(split(output))
    /\ LET line == split(output)[line_no + 1]
       IN  IF parse_raises(line)
           THEN parse_pc' = "raised" /\ UNCHANGED <<line_no, metrics>>
           ELSE /\ metrics' = parse_line(metrics, line)
                /\ line_no' = line_no + 1
                /\ UNCHANGED parse_pc
    /\ UNCHANGED <<network_type, output, mvars, cvars, rvars>>

\* line 78: return metrics
ParseReturn ==
    /\ parse_pc = "loop"
    /\ line_no = Len(split(output))
    /\ parse_pc' = "returned"
    /\ UNCHANGED <<network_type, output, line_no, metrics, mvars, cvars, rvars>>

ParseNext ==
    \/ ParseLine
    \/ ParseReturn

SpecParse == ParseInit /\ [][ParseNext]_vars

(* ---------------------------------------------------------------------- *)
(* performance_comparator.py: calculate_improvements, the report           *)
(* ---------------------------------------------------------------------- *)

MaxBatch == 2

RatAdd(a, b) == Rat(a.n * b.d + b.n * a.d, a.d * b.d)

RatSub(a, b) == Rat(a.n * b.d - b.n * a.d, a.d * b.d)

RatMul(a, b) == Rat(a.n * b.n, a.d * b.d)

\* a / b, b # 0
RatDiv(a, b) == Rat(a.n * b.d, a.d * b.n)

RatGt(a, b) == a.n * b.d > b.n * a.d

Whole(k) == Rat(k, 1)

RECURSIVE RatSum(_)
RatSum(xs) == IF xs = <<>> THEN Whole(0) ELSE RatAdd(Head(xs), RatSum(Tail(xs)))

\* statistics.mean(xs): <<the mean>>, or <<>> for the StatisticsError an
\* empty list raises
mean(xs) == IF xs = <<>> THEN <<>> ELSE <<RatDiv(RatSum(xs), Whole(Len(xs)))>>

\* the four metrics compared, in the order of the code
Kinds ==
    <<"large_transfer_bandwidth", "sustained_ops_rate", "sustained_throughput",
      "message_storm_rate">>

\* the truth value of run[kind] inside any(...): a list is true when it is
\* not empty, a float when it is not 0.0, None is false
truthy(kind, field) ==
    IF kind = "large_transfer_bandwidth" THEN field # <<>>
    ELSE field # <<>> /\ field[1].n # 0

\* any(run[kind] for run in results)
any_sample(results, kind) == \E i \in 1..Len(results) : truthy(kind, results[i][kind])

\* the list the mean is taken of: every bandwidth of every run, lines 90-91;
\* run[kind] of every run where it is not None, lines 108-109
RECURSIVE kind_samples(_, _)
kind_samples(results, kind) ==
    IF results = <<>> THEN <<>>
    ELSE Head(results)[kind] \o kind_samples(Tail(results), kind)

\* variant: the mean of the means of the runs
RECURSIVE kind_mean_per_trial(_, _)
kind_mean_per_trial(results, kind) ==
    IF any_sample(results, kind)
    THEN mean([i \in 1..Len(SelectSeq(results, LAMBDA r : r[kind] # <<>>)) |->
                   mean(SelectSeq(results, LAMBDA r : r[kind] # <<>>)[i][kind])[1]])
    ELSE <<Whole(0)>>

\* statistics.mean([...]) if any(...) else 0, lines 89-92 and the like
kind_mean(results, kind) ==
    IF any_sample(results, kind) THEN mean(kind_samples(results, kind)) ELSE <<Whole(0)>>

\* variant: every kind is reported
reports_kind_always(ssh_mean) == TRUE

\* if ssh_bandwidth > 0, line 99 and the like
reports_kind(ssh_mean) == RatGt(ssh_mean, Whole(0))

\* variant: the change as a fraction, not a percentage
comparison_as_fraction(ssh_mean, tb_mean) ==
    [ssh_avg |-> ssh_mean,
     thunderbolt_avg |-> tb_mean,
     improvement_percent |-> RatDiv(RatSub(tb_mean, ssh_mean), ssh_mean)]

\* lines 100-104 and the like: the entry of a kind
comparison(ssh_mean, tb_mean) ==
    [ssh_avg |-> ssh_mean,
     thunderbolt_avg |-> tb_mean,
     improvement_percent |->
         RatMul(RatDiv(RatSub(tb_mean, ssh_mean), ssh_mean), Whole(100))]

\* calculate_improvements: the exception that leaves it, and what it returns
\* (<<>> for None, <<the dictionary>> otherwise)
calculate_improvements(ssh, tb) ==
    IF ssh = <<>> \/ tb = <<>> THEN [raised |-> "none", value |-> <<>>]
    ELSE IF \E i \in 1..Len(Kinds) :
                kind_mean(ssh, Kinds[i]) = <<>> \/ kind_mean(tb, Kinds[i]) = <<>>
    THEN [raised |-> "StatisticsError", value |-> <<>>]
    ELSE LET ssh_mean(k) == kind_mean(ssh, k)[1]
             tb_mean(k) == kind_mean(tb, k)[1]
             reported == {k \in Range(Kinds) : reports_kind(ssh_mean(k))}
         IN  IF \E k \in reported : ssh_mean(k).n = 0
             THEN [raised |-> "ZeroDivisionError", value |-> <<>>]
             ELSE [raised |-> "none",
                   value |-> <<[k \in reported |-> comparison(ssh_mean(k), tb_mean(k))]>>]

\* lines 173-176: `not improvements` holds for None and for the empty dictionary
no_improvements(imp) == imp = <<>> \/ DOMAIN imp[1] = {}

\* lines 178-182: overall_improvements
overall_improvements(imp) ==
    LET reported == SelectSeq(Kinds, LAMBDA k : k \in DOMAIN imp[1])
    IN  [i \in 1..Len(reported) |-> imp[1][reported[i]].improvement_percent]

\* lines 198-205: the band of the overall average
band(avg_improvement) ==
    IF RatGt(avg_improvement, Whole(5)) THEN "EXCELLENT"
    ELSE IF RatGt(avg_improvement, Whole(1)) THEN "GOOD"
    ELSE IF RatGt(avg_improvement, Whole(-1)) THEN "NEUTRAL"
    ELSE "CONCERN"

\* print_comparison_report: the band printed, "no data" when none is
print_comparison_report(imp) ==
    IF no_improvements(imp) THEN "no data"
    ELSE band(mean(overall_improvements(imp))[1])

\* metrics of runs, as parse_benchmark_output returns them
run_transfers_a(network) ==
    [new_metrics(network, 0) EXCEPT !.large_transfer_bandwidth = <<Whole(10), Whole(20)>>,
                                    !.sustained_ops_rate = <<Rat(3, 2)>>,
                                    !.sustained_throughput = <<Whole(450)>>]

run_transfers_b(network) ==
    [new_metrics(network, 0) EXCEPT !.large_transfer_bandwidth = <<Whole(25), Whole(35)>>,
                                    !.sustained_ops_rate = <<Whole(2)>>,
                                    !.sustained_throughput = <<Whole(500)>>]

run_storm_a(network) ==
    [new_metrics(network, 0) EXCEPT !.message_storm_rate = <<Whole(100)>>]

run_storm_b(network) ==
    [new_metrics(network, 0) EXCEPT !.message_storm_rate = <<Whole(99)>>]

run_zeros(network) ==
    [new_metrics(network, 0) EXCEPT !.large_transfer_bandwidth = <<Whole(0)>>,
                                    !.sustained_ops_rate = <<Whole(0)>>,
                                    !.sustained_throughput = <<Whole(0)>>]

\* the values run_benchmark is taken to return when it returns metrics; the
\* last is a run that printed no line any pattern matches
RunMetrics(network) ==
    {run_transfers_a(network), run_transfers_b(network), run_storm_a(network),
     run_storm_b(network), run_zeros(network), new_metrics(network, 0)}

\* run_comparison is called: the two lists are empty
CompareInit ==
    /\ ManagerInit
    /\ ParseIdle
    /\ ssh_results = <<>>
    /\ thunderbolt_results = <<>>
    /\ improvements = <<>>
    /\ verdict = ""
    /\ compare_pc = "ssh_runs"
    /\ RunIdle

\* lines 230-237: a run over SSH gave metrics
AddSshResult ==
    /\ compare_pc = "ssh_runs"
    /\ Len(ssh_results) < MaxBatch
    /\ \E m \in RunMetrics("SSH") : ssh_results' = Append(ssh_results, m)
    /\ UNCHANGED <<thunderbolt_results, improvements, verdict, compare_pc, mvars, pvars, rvars>>

\* the runs over SSH are through, those that gave None left nothing
SshRunsDone ==
    /\ compare_pc = "ssh_runs"
    /\ compare_pc' = "thunderbolt_runs"
    /\ UNCHANGED <<ssh_results, thunderbolt_results, improvements, verdict, mvars, pvars, rvars>>

\* lines 242-249: a run over Thunderbolt gave metrics
AddThunderboltResult ==
    /\ compare_pc = "thunderbolt_runs"
    /\ Len(thunderbolt_results) < MaxBatch
    /\ \E m \in RunMetrics("Thunderbolt") :
           thunderbolt_results' = Append(thunderbolt_results, m)
    /\ UNCHANGED <<ssh_results, improvements, verdict, compare_pc, mvars, pvars, rvars>>

\* line 253: improvements = self.calculate_improvements()
Calculate ==
    /\ compare_pc = "thunderbolt_runs"
    /\ LET got == calculate_improvements(ssh_results, thunderbolt_results)
       IN  /\ improvements' = got.value
           /\ compare_pc' = IF got.raised = "none" THEN "calculated" ELSE "raised"
    /\ UNCHANGED <<ssh_results, thunderbolt_results, verdict, mvars, pvars, rvars>>

\* line 254: self.print_comparison_report(improvements)
Report ==
    /\ compare_pc = "calculated"
    /\ verdict' = print_comparison_report(improvements)
    /\ compare_pc' = "reported"
    /\ UNCHANGED <<ssh_results, thunderbolt_results, improvements, mvars, pvars, rvars>>

CompareNext ==
    \/ AddSshResult
    \/ SshRunsDone
    \/ AddThunderboltResult
    \/ Calculate
    \/ Report

SpecCompare == CompareInit /\ [][CompareNext]_vars

(* ---------------------------------------------------------------------- *)
(* performance_comparator.py: run_comparison, save_results                 *)
(* ---------------------------------------------------------------------- *)

\* lines 230-235 and 242-247: what run_benchmark is called with on each path
Paths ==
    [SSH |-> [cluster_manager |-> "cluster_manager.py",
              benchmark_script |-> "ssh_baseline_benchmark.py"],
     Thunderbolt |-> [cluster_manager |-> "cluster_manager_thunderbolt.py",
                      benchmark_script |-> "thunderbolt_benchmark.py"]]

\* how the manager process of a trial may end for run_benchmark: it exits,
\* it is killed after 300 s, or subprocess.run raises something else
BenchCauses == {"exit", "timeout", "error"}

\* exit statuses of the manager process: 0, an uncaught exception, no such file
ManagerCodes == {0, 1, 2}

\* the metrics run_benchmark is taken to parse in a comparison run; the last
\* is a run that printed no line any pattern matches
TrialMetrics(network) ==
    {run_transfers_a(network), run_transfers_b(network), new_metrics(network, 0)}

\* the calls of run_benchmark made so far for a path
TrialsOf(network) == SelectSeq(trials, LAMBDA t : t.network_type = network)

\* a call of run_benchmark has not returned yet
TrialRunning == trials # <<>> /\ trials[Len(trials)].state = "running"

\* variant: one turn too many
loop_continues_once_more(i, n) == i <= n

\* for i in range(num_runs), lines 229 and 241: i turns are through
loop_continues(i, n) == i < n

\* run_comparison(num_runs) is called by main, which makes num_runs at least 1
RunInit ==
    /\ ManagerInit
    /\ ParseIdle
    /\ ssh_results = <<>>
    /\ thunderbolt_results = <<>>
    /\ improvements = <<>>
    /\ verdict = ""
    /\ compare_pc = "ssh_runs"
    /\ num_runs \in 1..MaxBatch
    /\ trials = <<>>
    /\ saved = <<>>

\* a turn of a loop begins: run_benchmark is called
StartTrial(network) ==
    /\ ~TrialRunning
    /\ loop_continues(Len(TrialsOf(network)), num_runs)
    /\ trials' = Append(trials,
                    [network_type |-> network,
                     cluster_manager |-> Paths[network].cluster_manager,
                     benchmark_script |-> Paths[network].benchmark_script,
                     state |-> "running",
                     ok |-> FALSE])
    /\ UNCHANGED <<ssh_results, thunderbolt_results, improvements, verdict, compare_pc,
                   num_runs, saved, mvars, pvars>>

\* run_benchmark returns and the turn ends: the batch after `if result:`,
\* and where the loop goes; ok records that the process exited with status 0
EndTrial(network, batch, after) ==
    /\ TrialRunning
    /\ \E cause \in BenchCauses, code \in ManagerCodes, m \in TrialMetrics(network) :
        LET ret == run_benchmark_return(cause, code)
        IN  /\ trials' = [trials EXCEPT ![Len(trials)] =
                              [@ EXCEPT !.state = "ended",
                                        !.ok = (cause = "exit" /\ code = 0)]]
            /\ IF network = "SSH"
               THEN /\ ssh_results' = IF appends_result(ret) THEN Append(batch, m) ELSE batch
                    /\ UNCHANGED thunderbolt_results
               ELSE /\ thunderbolt_results' =
                           IF appends_result(ret) THEN Append(batch, m) ELSE batch
                    /\ UNCHANGED ssh_results
    /\ compare_pc' = IF loop_continues(Len(TrialsOf(network)), num_runs)
                     THEN compare_pc ELSE after
    /\ UNCHANGED <<improvements, verdict, num_runs, saved, mvars, pvars>>

\* lines 229-235
StartSshTrial == compare_pc = "ssh_runs" /\ StartTrial("SSH")

\* lines 236-238
EndSshTrial ==
    compare_pc = "ssh_runs" /\ EndTrial("SSH", ssh_results, "thunderbolt_runs")

\* lines 241-247
StartThunderboltTrial == compare_pc = "thunderbolt_runs" /\ StartTrial("Thunderbolt")

\* lines 248-250
EndThunderboltTrial ==
    compare_pc = "thunderbolt_runs"
        /\ EndTrial("Thunderbolt", thunderbolt_results, "trials_done")

\* line 253: improvements = self.calculate_improvements()
RunCalculate ==
    /\ compare_pc = "trials_done"
    /\ LET got == calculate_improvements(ssh_results, thunderbolt_results)
       IN  /\ improvements' = got.value
           /\ compare_pc' = IF got.raised = "none" THEN "calculated" ELSE "raised"
    /\ UNCHANGED <<ssh_results, thunderbolt_results, verdict, mvars, pvars, rvars>>

\* variant: the file holds the improvements with the paths exchanged
save_results_exchanged(ssh, tb, t) ==
    [timestamp |-> t,
     ssh_results |-> ssh,
     thunderbolt_results |-> tb,
     improvements |-> calculate_improvements(tb, ssh).value]

\* save_results, lines 211-216: the data written, improvements computed anew
save_results(ssh, tb, t) ==
    [timestamp |-> t,
     ssh_results |-> ssh,
     thunderbolt_results |-> tb,
     improvements |-> calculate_improvements(ssh, tb).value]

\* line 255: self.save_results()
Save ==
    /\ compare_pc = "reported"
    /\ IF calculate_improvements(ssh_results, thunderbolt_results).raised = "none"
       THEN /\ saved' = <<save_results(ssh_results, thunderbolt_results, now)>>
            /\ compare_pc' = "saved"
       ELSE /\ compare_pc' = "raised"
            /\ UNCHANGED saved
    /\ UNCHANGED <<ssh_results, thunderbolt_results, improvements, verdict, num_runs, trials,
                   mvars, pvars>>

RunNext ==
    \/ StartSshTrial
    \/ EndSshTrial
    \/ StartThunderboltTrial
    \/ EndThunderboltTrial
    \/ RunCalculate
    \/ Report
    \/ Save

SpecRun == RunInit /\ [][RunNext]_vars

(* ---------------------------------------------------------------------- *)
(* The result file as a function of the job's output                       *)
(* ---------------------------------------------------------------------- *)

\* pieces of what a job may write to either stream; the third is the line
\* the result file itself puts before stderr
OutputPieces == {"", "out\n", "\nSTDERR:\n", "err\n"}

\* texts of up to two pieces
OutputTexts == {a \o b : a \in OutputPieces, b \in OutputPieces}

\* no run yet, no result file
RecorderInit ==
    /\ ManagerInit
    /\ ParseIdle
    /\ CompareIdle
    /\ RunIdle

\* deploy_and_run of cluster_manager.py, lines 55-80, for any output of the job
RecordCM ==
    /\ pc = "idle"
    /\ \E out \in OutputTexts, err \in OutputTexts, code \in ReturnCodes :
        LET res == [returncode |-> code, stdout |-> out, stderr |-> err]
        IN  /\ result' = <<res>>
            /\ files' = write_file(files, results_file("jobA"),
                            cm_results_text("jobA", "simple_test.py", now, res))
    /\ entry' = "cm_main" /\ job_name' = "jobA" /\ script_name' = "simple_test.py"
    /\ pc' = "done"
    /\ UNCHANGED <<run, now, script_exists, script_args, distributed, copyIdx, calls, raised,
                   report, exitCode, overwritten, hvars, pvars, cvars, rvars>>

\* deploy_and_run of cluster_manager_thunderbolt.py, lines 82-101, for any
\* output of the job
RecordTB ==
    /\ pc = "idle"
    /\ \E out \in OutputTexts, err \in OutputTexts, code \in ReturnCodes :
        LET res == [returncode |-> code, stdout |-> out, stderr |-> err]
        IN  /\ result' = <<res>>
            /\ files' = write_file(files, results_file("jobA"), tb_results_text("jobA", now, res))
    /\ entry' = "tb_deploy_and_run" /\ job_name' = "jobA" /\ script_name' = "simple_test.py"
    /\ pc' = "done"
    /\ UNCHANGED <<run, now, script_exists, script_args, distributed, copyIdx, calls, raised,
                   report, exitCode, overwritten, hvars, pvars, cvars, rvars>>

RecorderNext ==
    \/ RecordCM
    \/ RecordTB

SpecRecorder == RecorderInit /\ [][RecorderNext]_vars

(* ---------------------------------------------------------------------- *)
(* Properties                                                              *)
(* ---------------------------------------------------------------------- *)

\* the node list of the manager the current run belongs to
NodesOf(e) == IF e = "cm_main" THEN cm_nodes ELSE tb_nodes

\* the control-plane addresses of the manager the current run belongs to
ControlIpsOf(e) == IF e = "cm_main" THEN node_ips ELSE ssh_ips

DeployEntries == {"cm_main", "tb_deploy_and_run", "tb_main"}

IsCopy(c) == c.purpose = "copy"

IsLaunch(c) == c.purpose = "launch"

CopyFailed(c) == IsCopy(c) /\ c.outcome.returncode # 0

\* C1: deploy copies in node-list order and stops at the first node whose
\* copy exits non-zero: the i-th remote command of a deployment is the copy
\* to the i-th node, every copy before it succeeded, and a failed copy is the
\* last remote command of the run (so the number of copy attempts is at most
\* the position of the first failure, and no later node is contacted).
C1_DeployStopsAtFirstFailure ==
    entry \in DeployEntries =>
        \A i \in 1..Len(calls) :
            /\ IsCopy(calls[i]) =>
                  /\ i <= Len(NodesOf(entry))
                  /\ calls[i].target = NodesOf(entry)[i]
                  /\ \A j \in 1..(i - 1) : IsCopy(calls[j]) /\ ~CopyFailed(calls[j])
            /\ CopyFailed(calls[i]) => i = Len(calls)

\* C1 witness: deploy_script gave up at the second of three nodes
C1_Witness ==
    /\ entry = "tb_deploy_and_run" /\ pc = "done"
    /\ Len(calls) = 2
    /\ ~CopyFailed(calls[1]) /\ CopyFailed(calls[2])

\* C2: a launch command is submitted only after the copy to every node has
\* exited with code 0; once a copy has failed no launch is submitted.
C2_LaunchOnlyAfterFullDeploy ==
    entry \in DeployEntries =>
        \A i \in 1..Len(calls) :
            IsLaunch(calls[i]) =>
                /\ calls[i].target = NodesOf(entry)[1]
                /\ \A n \in 1..Len(NodesOf(entry)) :
                       \E j \in 1..(i - 1) :
                           /\ IsCopy(calls[j])
                           /\ calls[j].target = NodesOf(entry)[n]
                           /\ calls[j].file = script_name
                           /\ calls[j].outcome.returncode = 0
                /\ \A j \in 1..Len(calls) : ~CopyFailed(calls[j])

\* C2 witness: the --distributed path of main has launched
C2_Witness ==
    /\ entry = "tb_main" /\ distributed /\ pc = "done"
    /\ Len(calls) = Len(tb_nodes) + 1
    /\ IsLaunch(calls[Len(calls)])

\* C3: when the local script does not exist the run ends in failure without
\* any remote command: no copy, no launch.
C3_MissingScriptContactsNoNode ==
    (entry \in DeployEntries /\ ~script_exists) =>
        /\ calls = <<>>
        /\ pc = "done"
        /\ report = "failed"
        /\ raised = "none"
        /\ result = <<>>

\* C3 witness: deploy_and_run of cluster_manager.py was given a missing script
C3_Witness ==
    entry = "cm_main" /\ ~script_exists /\ pc = "done" /\ report = "failed"

\* a launch that forces the data plane: a transport filter is set
ForcesDataPlane(c) == IsLaunch(c) /\ c.cmd.if_include # {}

\* what an echo line may print to show the transport filter in effect: the
\* filter itself, or an address that lies inside it
FilterWords(cmd) ==
    {CidrText(f) : f \in cmd.if_include}
    \cup {IpText(ip) : ip \in {a \in Range(thunderbolt_ips) :
                                  \E f \in cmd.if_include : InCidr(a, f)}}

HasSelfCheckLine(cmd) ==
    \E k \in 1..Len(cmd.prelude) :
        /\ cmd.prelude[k][1] = "echo"
        /\ \E w \in 2..Len(cmd.prelude[k]) : cmd.prelude[k][w] \in FilterWords(cmd)

\* C4: every launch that forces the data plane carries, in its command text,
\* a self-check line that echoes the transport filter in effect.
C4_SelfCheckLineInEveryForcedLaunch ==
    \A i \in 1..Len(calls) : ForcesDataPlane(calls[i]) => HasSelfCheckLine(calls[i].cmd)

\* a launch in distributed topology mode: the job line uses the launch wrapper
IsDistributedLaunch(c) == IsLaunch(c) /\ c.cmd.wrapper # ""

\* C5: a distributed launch places its processes by a host list that holds
\* the control-plane address of every node, and no other address (no
\* data-plane address), with as many workers as there are nodes.
C5_PlacementByControlPlane ==
    \A i \in 1..Len(calls) :
        IsDistributedLaunch(calls[i]) =>
            LET cmd == calls[i].cmd IN
            /\ cmd.hostflag \in {"-H", "--host"}
            /\ Len(cmd.hosts) = Len(NodesOf(entry))
            /\ \A n \in 1..Len(NodesOf(entry)) : cmd.hosts[n] = ControlIpsOf(entry)[n]
            /\ Range(cmd.hosts) \cap Range(thunderbolt_ips) = {}
            /\ cmd.np = Len(NodesOf(entry))

\* C5 witness: the --distributed path of main has launched with arguments
C5_Witness ==
    /\ entry = "tb_main" /\ distributed /\ script_args = "--test-mlx"
    /\ calls # <<>> /\ IsDistributedLaunch(calls[Len(calls)])

\* the run launches through a builder that forces the data plane
DataPlaneForcingRun ==
    entry = "tb_deploy_and_run" \/ (entry = "tb_main" /\ distributed)

\* C6: a launch built in data-plane-forcing mode restricts the transport to
\* the data-plane range (every data-plane address lies in the filter, no
\* control-plane address does) and enables TCP and self only; the launch of
\* cluster_manager.py sets no transport filter.
C6_TransportPinnedToDataPlane ==
    \A i \in 1..Len(calls) :
        IsLaunch(calls[i]) =>
            LET cmd == calls[i].cmd IN
            /\ DataPlaneForcingRun =>
                  /\ cmd.if_include # {}
                  /\ \A f \in cmd.if_include :
                        /\ \A n \in 1..Len(thunderbolt_ips) : InCidr(thunderbolt_ips[n], f)
                        /\ \A n \in 1..Len(ssh_ips) : ~InCidr(ssh_ips[n], f)
                  /\ Range(cmd.btl) = {"tcp", "self"}
                  /\ cmd.pml = "ob1"
                  /\ cmd.script = script_name
            /\ entry = "cm_main" => cmd.if_include = {} /\ cmd.btl = <<>>

\* C6 witness: deploy_and_run of the Thunderbolt manager has launched
C6_Witness ==
    /\ entry = "tb_deploy_and_run" /\ script_name = "thunderbolt_benchmark.py"
    /\ calls # <<>> /\ ForcesDataPlane(calls[Len(calls)])

\* the last remote command of the run is a launch that ended as `kind`
LastLaunchEnded(kind) ==
    /\ calls # <<>>
    /\ IsLaunch(calls[Len(calls)])
    /\ calls[Len(calls)].outcome.kind = kind

\* the entry points that record the run
RecordingEntries == {"cm_main", "tb_deploy_and_run"}

\* C7: a remote job that exits, with zero or non-zero status, is returned as
\* a completed result carrying its exit status, stdout and stderr; nothing is
\* raised and the orchestration step runs to its end (the result is recorded
\* and the exit status reported); what is raised is a transport-level
\* failure, the timeout of the remote command.
C7_NonZeroExitIsData ==
    /\ LastLaunchEnded("exit") =>
          LET o == calls[Len(calls)].outcome IN
          /\ raised = "none"
          /\ result = <<[returncode |-> o.returncode, stdout |-> o.stdout,
                         stderr |-> o.stderr]>>
          /\ pc = "done"
          /\ report = (IF o.returncode = 0 THEN "success" ELSE "failed")
          /\ entry \in RecordingEntries => results_file(job_name) \in DOMAIN files
    /\ raised # "none" =>
          /\ raised = "TimeoutExpired"
          /\ calls # <<>>
          /\ calls[Len(calls)].outcome.kind = "timeout"
          /\ result = <<>>

\* C7 witness: the job launched by deploy_and_run exited with status 1 and
\* wrote to stderr
C7_Witness ==
    /\ entry = "tb_deploy_and_run" /\ pc = "done"
    /\ LastLaunchEnded("exit")
    /\ calls[Len(calls)].outcome.returncode = 1
    /\ calls[Len(calls)].outcome.stderr # ""
    /\ report = "failed"

\* the text a Run Recorder write leaves for the launch result of this run
RecordedTexts ==
    {cm_results_text(job_name, script_name, now, result[1]),
     tb_results_text(job_name, now, result[1])}

\* C8: every launch that completed (the remote command returned an exit
\* code) is followed by a Run Recorder write that stores its stdout and
\* stderr, on every entry path that launches a job.
C8_EveryCompletedLaunchIsRecorded ==
    (pc = "done" /\ LastLaunchEnded("exit") /\ result # <<>>) =>
        /\ results_file(job_name) \in DOMAIN files
        /\ files[results_file(job_name)] \in RecordedTexts

\* exit codes with which a process fails
FailureCodes == (ReturnCodes \cup {2}) \ {0}

\* C9: a remote command that timed out gives its caller an outcome that
\* differs from that of a command that completed with a non-zero exit code:
\* for the launches of the managers (an exception against a result), and for
\* run_benchmark (its return value).
C9_TimeoutDistinctFromNonZeroExit ==
    /\ LastLaunchEnded("timeout") => raised = "TimeoutExpired" /\ result = <<>>
    /\ (LastLaunchEnded("exit") /\ result # <<>>) => raised = "none"
    /\ (hpc = "returned" /\ benchCause = "timeout") =>
          \A code \in FailureCodes : benchRet # run_benchmark_return("exit", code)

\* C10: every remote command the orchestrator issues (copy, launch,
\* connectivity check) carries a finite timeout.
C10_EveryRemoteCommandHasTimeout ==
    \A i \in 1..Len(calls) :
        \E t \in calls[i].timeout : t \in Nat /\ t > 0

\* the trial met a transport-level failure: a copy failed on some node, or
\* the launch did not end within its timeout
TransportFailure ==
    \/ \E i \in 1..Len(calls) : CopyFailed(calls[i])
    \/ LastLaunchEnded("timeout")

\* C11: a transport-level failure of a trial is reported by the manager to
\* its caller as a failure (a non-zero exit status of the manager process),
\* so that run_benchmark returns no metrics and no result record is added.
C11_TransportFailureFailsTheTrial ==
    (hpc = "returned" /\ benchCause = "exit" /\ TransportFailure) =>
        /\ exitCode # {0}
        /\ ~appends_result(benchRet)

\* the lines the loop has gone through
Consumed == SubSeq(split(output), 1, line_no)

\* the lines of Lines each pattern matches
TransferLines == {l \in Lines : bandwidth_match(l) # <<>>}

SustainedLines == {l \in Lines : sustained_match(l) # <<>>}

StormLines == {l \in Lines : storm_match(l) # <<>>}

IsTransferLine(l) == l \in TransferLines

IsSustainedLine(l) == l \in SustainedLines

IsStormLine(l) == l \in StormLines

MatchesNoPattern(l) == ~IsTransferLine(l) /\ ~IsSustainedLine(l) /\ ~IsStormLine(l)

\* the value the first pattern captures on each line it matches
TransferValues == [l \in TransferLines |-> float(bandwidth_match(l)[1].g2)[1]]

TransferValue(l) == TransferValues[l]

\* C12: the transfer-bandwidth samples of the metrics are, in line order,
\* the values of the lines the transfer-bandwidth pattern matches: one
\* sample per matching line, none for any other line.
C12_OneBandwidthSamplePerMatchingLine ==
    parse_pc \in {"loop", "returned"} =>
        LET matching == SelectSeq(Consumed, IsTransferLine)
            samples == metrics.large_transfer_bandwidth
        IN  /\ Len(samples) = Len(matching)
            /\ \A k \in 1..Len(matching) : samples[k] = TransferValue(matching[k])

\* two matching lines with different values, and a line without a match
C12_Witness ==
    /\ parse_pc = "returned"
    /\ Len(metrics.large_transfer_bandwidth) = 2
    /\ metrics.large_transfer_bandwidth[1] # metrics.large_transfer_bandwidth[2]
    /\ \E i \in 1..Len(Consumed) : Consumed[i] # <<>> /\ ~IsTransferLine(Consumed[i])

\* C13: for every kind of metric, the metrics hold as many samples of the
\* kind as lines matched the kind's pattern: no sample is discarded or
\* overwritten.
C13_OneSamplePerMatchingLineOfEveryKind ==
    parse_pc \in {"loop", "returned"} =>
        /\ Len(metrics.large_transfer_bandwidth) = Len(SelectSeq(Consumed, IsTransferLine))
        /\ Len(metrics.sustained_ops_rate) = Len(SelectSeq(Consumed, IsSustainedLine))
        /\ Len(metrics.sustained_throughput) = Len(SelectSeq(Consumed, IsSustainedLine))
        /\ Len(metrics.message_storm_rate) = Len(SelectSeq(Consumed, IsStormLine))

\* C14: parse_benchmark_output never raises, and a turn of the loop on a
\* line that matches no pattern leaves every field of the metrics as it was
\* before the line.
C14_ParseIsTotalAndSkipsOtherLines ==
    /\ [](parse_pc # "raised")
    /\ [][(line_no' = line_no + 1 /\ MatchesNoPattern(split(output)[line_no + 1]))
              => metrics' = metrics]_vars

\* every field is set, and the loop then went through a printed line that
\* matches no pattern
C14_Witness ==
    /\ parse_pc = "returned"
    /\ line_no >= 2
    /\ Consumed[line_no - 1] # <<>> /\ MatchesNoPattern(Consumed[line_no - 1])
    /\ metrics.large_transfer_bandwidth # <<>>
    /\ metrics.sustained_ops_rate # <<>>

\* calculate_improvements has returned
Calculated == compare_pc \in {"calculated", "reported"}

\* every sample of a kind that the runs of a batch hold, trial after trial
AllSamples(batch, kind) ==
    LET upto[i \in 0..Len(batch)] ==
            IF i = 0 THEN <<>> ELSE upto[i - 1] \o batch[i][kind]
    IN  upto[Len(batch)]

\* m is the mean of the samples xs pooled: m times their number is their
\* sum; it is 0 when there is no sample
IsPooledMean(m, xs) ==
    IF xs = <<>> THEN m = Whole(0)
    ELSE RatMul(m, Whole(Len(xs))) = RatSum(xs)

\* the kind is in the mapping returned
Reported(kind) == improvements # <<>> /\ kind \in DOMAIN improvements[1]

\* the entry of a kind holds the pooled means and the percentage change of
\* the claim: percent * control = 100 * (alternate - control)
EntryAsClaimed(kind) ==
    LET given == improvements[1][kind]
    IN  /\ IsPooledMean(given.ssh_avg, AllSamples(ssh_results, kind))
        /\ IsPooledMean(given.thunderbolt_avg, AllSamples(thunderbolt_results, kind))
        /\ RatMul(given.improvement_percent, given.ssh_avg)
               = RatMul(Whole(100), RatSub(given.thunderbolt_avg, given.ssh_avg))

\* the mean of a batch's samples of a kind is above zero
PositiveMean(batch, kind) == RatGt(RatSum(AllSamples(batch, kind)), Whole(0))

\* the value, rounded down, of a fraction times 100
Hundredths(r) == (r.n * 100) \div r.d

\* C15 as stated: every kind with at least one control sample is reported,
\* with the pooled control mean, the pooled alternate mean, and
\* (alternate - control) / control * 100.
C15_AsStated ==
    Calculated =>
        \A i \in 1..Len(Kinds) :
            AllSamples(ssh_results, Kinds[i]) # <<>> =>
                Reported(Kinds[i]) /\ EntryAsClaimed(Kinds[i])

\* C15: when both batches hold a run, every kind whose pooled control mean
\* is above zero is reported, with the control mean and the alternate mean
\* taken over all samples of all trials pooled (not over per-trial means) and
\* improvement_percent = (alternate - control) / control * 100; control
\* [10, 20] and alternate [25, 35] give 15, 30 and +100, control [450] and
\* alternate [500] give +11.11.
C15_PooledMeansAndPercentage ==
    (Calculated /\ ssh_results # <<>> /\ thunderbolt_results # <<>>) =>
        \A i \in 1..Len(Kinds) :
            LET kind == Kinds[i]
                control == AllSamples(ssh_results, kind)
                alternate == AllSamples(thunderbolt_results, kind)
                given == improvements[1][kind]
            IN  PositiveMean(ssh_results, kind) =>
                    /\ Reported(kind) /\ EntryAsClaimed(kind)
                    /\ (control = <<Whole(10), Whole(20)>> /\ alternate = <<Whole(25), Whole(35)>>)
                           => /\ given.ssh_avg = Whole(15)
                              /\ given.thunderbolt_avg = Whole(30)
                              /\ given.improvement_percent = Whole(100)
                    /\ (control = <<Whole(450)>> /\ alternate = <<Whole(500)>>)
                           => Hundredths(given.improvement_percent) = 1111

\* two control trials with different numbers of transfer samples, so that
\* the pooled mean is not the mean of the trials' means, and a reported kind
C15_Witness ==
    /\ Calculated
    /\ Len(ssh_results) = 2 /\ thunderbolt_results # <<>>
    /\ Len(ssh_results[1].large_transfer_bandwidth) = 2
    /\ Len(ssh_results[2].large_transfer_bandwidth) = 1
    /\ AllSamples(thunderbolt_results, "large_transfer_bandwidth") # <<>>
    /\ Reported("large_transfer_bandwidth")
    /\ improvements[1]["large_transfer_bandwidth"].ssh_avg = Whole(10)

\* C16 as stated: calculate_improvements never raises and returns a mapping
\* from which every kind with no control sample is omitted.
C16_AsStated ==
    /\ compare_pc # "raised"
    /\ Calculated =>
           /\ improvements # <<>>
           /\ \A i \in 1..Len(Kinds) :
                  AllSamples(ssh_results, Kinds[i]) = <<>> => ~Reported(Kinds[i])

\* C16: calculate_improvements never raises and never divides by zero; it
\* returns None when a batch holds no run, and otherwise a mapping from which
\* every kind with no control sample, or with a control mean of 0, is omitted.
C16_NoRaiseAndOmission ==
    /\ compare_pc # "raised"
    /\ Calculated =>
           /\ (ssh_results = <<>> \/ thunderbolt_results = <<>>) <=> improvements = <<>>
           /\ \A i \in 1..Len(Kinds) :
                  ~PositiveMean(ssh_results, Kinds[i]) => ~Reported(Kinds[i])

\* a mapping that reports one kind and omits a kind with no control sample
\* and a kind whose control samples are all 0
C16_Witness ==
    /\ Calculated
    /\ improvements # <<>>
    /\ Reported("sustained_throughput")
    /\ AllSamples(ssh_results, "message_storm_rate") = <<>>
    /\ \E i \in 1..Len(ssh_results) : ssh_results[i].sustained_ops_rate = <<Whole(0)>>
    /\ \E i \in 1..Len(thunderbolt_results) : thunderbolt_results[i].sustained_ops_rate # <<>>

\* C17 as stated: a kind with a control sample and no alternate sample, the
\* alternate batch may hold no run at all, is reported with the alternate
\* mean 0 and the change -100.
C17_AsStated ==
    Calculated =>
        \A i \in 1..Len(Kinds) :
            (/\ AllSamples(ssh_results, Kinds[i]) # <<>>
             /\ AllSamples(thunderbolt_results, Kinds[i]) = <<>>) =>
                /\ Reported(Kinds[i])
                /\ improvements[1][Kinds[i]].thunderbolt_avg = Whole(0)
                /\ improvements[1][Kinds[i]].improvement_percent = Whole(-100)

\* C17: when the alternate batch holds at least one run, a kind whose
\* control mean is above zero and that has no alternate sample is reported
\* with the alternate mean 0 and the change -100; when the alternate batch
\* holds no run, nothing is reported.
C17_MissingAlternateMeansMinusHundred ==
    Calculated =>
        /\ thunderbolt_results = <<>> => improvements = <<>>
        /\ thunderbolt_results # <<>> =>
               \A i \in 1..Len(Kinds) :
                   (/\ PositiveMean(ssh_results, Kinds[i])
                    /\ AllSamples(thunderbolt_results, Kinds[i]) = <<>>) =>
                       /\ Reported(Kinds[i])
                       /\ improvements[1][Kinds[i]].thunderbolt_avg = Whole(0)
                       /\ improvements[1][Kinds[i]].improvement_percent = Whole(-100)

\* the control runs hold message rates, the alternate runs hold none
C17_Witness ==
    /\ Calculated
    /\ thunderbolt_results # <<>>
    /\ PositiveMean(ssh_results, "message_storm_rate")
    /\ AllSamples(thunderbolt_results, "message_storm_rate") = <<>>
    /\ Reported("message_storm_rate")

\* the overall average of the report
OverallAverage == mean(overall_improvements(improvements))[1]

RatGe(a, b) == ~RatGt(b, a)

\* C18: the band printed for the overall average is excellent iff it is
\* above 5, good iff it is in 1..5, neutral iff it is in -1..1 and concern
\* iff it is below -1 (at 1, where two bands meet, either is taken to be
\* right); an average of exactly -1 is not concern.
C18_BandsOfTheOverallAverage ==
    (compare_pc = "reported" /\ verdict # "no data") =>
        LET avg == OverallAverage
        IN  /\ verdict = "EXCELLENT" <=> RatGt(avg, Whole(5))
            /\ verdict = "GOOD" => RatGe(avg, Whole(1)) /\ RatGe(Whole(5), avg)
            /\ verdict = "NEUTRAL" => RatGe(avg, Whole(-1)) /\ RatGe(Whole(1), avg)
            /\ verdict = "CONCERN" <=> RatGt(Whole(-1), avg)
            /\ verdict \in {"EXCELLENT", "GOOD", "NEUTRAL", "CONCERN"}

\* the text a recording entry point writes for a run
ArtifactText(e, job, script, t, res) ==
    IF e = "cm_main" THEN cm_results_text(job, script, t, res)
    ELSE tb_results_text(job, t, res)

\* C19: a recorded invocation writes exactly one artifact, named from its
\* job name, and the artifact then holds the text of this invocation alone,
\* whatever it held before; every other artifact is left as it was, and no
\* other step touches an artifact.
C19_OneArtifactPerInvocationReplaced ==
    [][IF entry \in RecordingEntries /\ result = <<>> /\ result' # <<>>
       THEN /\ DOMAIN files' = DOMAIN files \cup {results_file(job_name)}
            /\ files'[results_file(job_name)]
                   = ArtifactText(entry, job_name, script_name, now, result'[1])
            /\ \A name \in DOMAIN files \ {results_file(job_name)} :
                   files'[name] = files[name]
       ELSE files' = files]_vars

\* the second of two invocations with one job name has written: the
\* artifact was written over and holds this invocation's text, another
\* job's artifact stands beside it
C19_Witness ==
    /\ pc = "done" /\ entry \in RecordingEntries /\ raised = "none" /\ result # <<>>
    /\ results_file(job_name) \in overwritten
    /\ files[results_file(job_name)]
           = ArtifactText(entry, job_name, script_name, now, result[1])
    /\ result[1].stdout # ""

\* C20: the artifact of a run determines the run's stdout and stderr: no
\* other pair of texts, recorded by the same entry point for the same job at
\* the same time, gives the text that is in the file.
C20_ArtifactDeterminesOutput ==
    (pc = "done" /\ entry \in RecordingEntries /\ result # <<>> /\ raised = "none") =>
        \A out \in OutputTexts, err \in OutputTexts :
            <<out, err>> # <<result[1].stdout, result[1].stderr>> =>
                ArtifactText(entry, job_name, script_name, now,
                             [returncode |-> result[1].returncode,
                              stdout |-> out, stderr |-> err])
                    # files[results_file(job_name)]

(* ---------------------------------------------------------------------- *)
(* run_comparison                                                          *)
(* ---------------------------------------------------------------------- *)

\* the trials of a path that have ended with the manager process exiting 0
Succeeded(network) ==
    {i \in DOMAIN trials : /\ trials[i].network_type = network
                           /\ trials[i].state = "ended"
                           /\ trials[i].ok}

\* the trials that have ended otherwise: non-zero exit, timeout, other error
Failed(network) ==
    {i \in DOMAIN trials : /\ trials[i].network_type = network
                           /\ trials[i].state = "ended"
                           /\ ~trials[i].ok}

\* every trial of both paths has been started and has ended
AllTrialsEnded ==
    /\ Len(TrialsOf("SSH")) = num_runs
    /\ Len(TrialsOf("Thunderbolt")) = num_runs
    /\ \A i \in DOMAIN trials : trials[i].state = "ended"

\* inside a loop a call of run_benchmark is to return or the next turn is to
\* begin: the loop is not left before its last turn and never stalls
NextTurn ==
    LET network == IF compare_pc = "ssh_runs" THEN "SSH" ELSE "Thunderbolt"
    IN  TrialRunning \/ Len(TrialsOf(network)) < num_runs

\* C21: a failed trial adds nothing to its batch and stops nothing: each
\* batch is as long as the number of its path's trials that succeeded, the
\* comparison never ends in an exception and always has a next step until the
\* artifact is saved, and report and artifact come after all trials of both
\* paths have ended
C21_FailedTrialIsSkippedAndRunGoesOn ==
    /\ Len(ssh_results) = Cardinality(Succeeded("SSH"))
    /\ Len(thunderbolt_results) = Cardinality(Succeeded("Thunderbolt"))
    /\ compare_pc # "raised"
    /\ compare_pc \in {"ssh_runs", "thunderbolt_runs"} => NextTurn
    /\ compare_pc \in {"reported", "saved"} => AllTrialsEnded /\ verdict # ""
    /\ compare_pc = "saved" => AllTrialsEnded /\ saved # <<>>

\* the artifact is saved after a run in which each path had a trial that
\* failed and the control path one that succeeded
C21_Witness ==
    /\ compare_pc = "saved"
    /\ Failed("SSH") # {}
    /\ Failed("Thunderbolt") # {}
    /\ Succeeded("SSH") # {}
    /\ \E i \in Failed("SSH") : \E j \in Succeeded("SSH") : i < j

(* ---------------------------------------------------------------------- *)
(* Termination of an orchestration run                                     *)
(* ---------------------------------------------------------------------- *)

\* C22: every remote call of a run ends, by the exit of the remote process
\* or by a timeout, so that no run is left waiting on a call for ever
C22_EveryRemoteCallEnds ==
    /\ pc # "blocked"
    /\ \A i \in DOMAIN calls : calls[i].outcome.kind \in {"exit", "timeout"}

\* the comparison has been computed
Compared == compare_pc \in {"calculated", "reported", "saved"}

\* C23: a comparison run makes exactly num_runs control invocations and then
\* exactly num_runs alternate ones, whatever their outcomes: the log of
\* invocations holds the control path at places 1..num_runs and the alternate
\* path at the num_runs places after them, each with its path's manager and
\* script, none past 2*num_runs (no retry), an invocation starts only when
\* all before it have ended, and the comparison is computed only after all
\* 2*num_runs invocations have ended
C23_ControlTrialsThenAlternateTrials ==
    /\ Len(trials) <= 2 * num_runs
    /\ \A i \in DOMAIN trials :
        /\ trials[i].network_type = (IF i <= num_runs THEN "SSH" ELSE "Thunderbolt")
        /\ trials[i].cluster_manager = Paths[trials[i].network_type].cluster_manager
        /\ trials[i].benchmark_script = Paths[trials[i].network_type].benchmark_script
        /\ i < Len(trials) => trials[i].state = "ended"
    /\ (Compared \/ compare_pc = "trials_done" \/ improvements # <<>>) =>
           /\ Len(trials) = 2 * num_runs
           /\ trials[Len(trials)].state = "ended"

\* the comparison is computed after two invocations of each path, of which
\* the first control one failed
C23_Witness ==
    /\ compare_pc = "calculated"
    /\ num_runs = 2
    /\ ~trials[1].ok
    /\ Len(ssh_results) = 1

\* the steps of calculate_improvements, print_comparison_report and
\* save_results are the ones taken from these places of run_comparison
AfterTrials == compare_pc \in {"trials_done", "calculated", "reported"}

\* C24: calculate_improvements, print_comparison_report and save_results
\* leave both batches as they are; the mapping saved is the mapping reported,
\* beside the batches it was computed from; and computing the improvements
\* again, at any later point, gives the mapping reported
C24_SavedMappingIsReportedMapping ==
    /\ [](Compared =>
            calculate_improvements(ssh_results, thunderbolt_results).value = improvements)
    /\ [](compare_pc = "saved" =>
            /\ saved # <<>>
            /\ saved[1].improvements = improvements
            /\ saved[1].ssh_results = ssh_results
            /\ saved[1].thunderbolt_results = thunderbolt_results)
    /\ [][AfterTrials => /\ ssh_results' = ssh_results
                         /\ thunderbolt_results' = thunderbolt_results]_vars

\* results are saved of two control runs with different samples and a
\* mapping that reports a kind
C24_Witness ==
    /\ compare_pc = "saved"
    /\ Len(ssh_results) = 2
    /\ ssh_results[1] # ssh_results[2]
    /\ improvements # <<>>
    /\ DOMAIN improvements[1] # {}

(* ---------------------------------------------------------------------- *)
(* The two sustained fields of the metrics                                 *)
(* ---------------------------------------------------------------------- *)

\* the two values the sustained pattern captures on each line it matches
SustainedValues ==
    [l \in SustainedLines |->
        [ops_rate |-> float(sustained_match(l)[1].g2),
         throughput |-> float(sustained_match(l)[1].g3)]]

\* C25: sustained_ops_rate and sustained_throughput of the metrics are both
\* None or both present: None when no line gone through matches the
\* sustained pattern, and otherwise the two values captured on one line, the
\* last line gone through that matches it
C25_SustainedFieldsComeFromOneLine ==
    parse_pc \in {"loop", "returned"} =>
        LET matching == SelectSeq(Consumed, IsSustainedLine)
        IN  /\ (metrics.sustained_ops_rate = <<>>) = (metrics.sustained_throughput = <<>>)
            /\ IF matching = <<>>
               THEN /\ metrics.sustained_ops_rate = <<>>
                    /\ metrics.sustained_throughput = <<>>
               ELSE LET last == SustainedValues[matching[Len(matching)]]
                    IN  /\ last.ops_rate # <<>>
                        /\ metrics.sustained_ops_rate = last.ops_rate
                        /\ metrics.sustained_throughput = last.throughput

\* the metrics are returned after two lines of different values matched the
\* sustained pattern, and another line followed the last of them
C25_Witness ==
    /\ parse_pc = "returned"
    /\ \E i, j \in 1..Len(Consumed) :
        /\ i < j /\ j < Len(Consumed)
        /\ IsSustainedLine(Consumed[i]) /\ IsSustainedLine(Consumed[j])
        /\ SustainedValues[Consumed[i]] # SustainedValues[Consumed[j]]
        /\ ~IsSustainedLine(Consumed[Len(Consumed)])
    /\ metrics.sustained_throughput # <<>>

====
